---- MODULE Spec2Model ----
(***************************************************************************)
(* Model of the file / file-bundle records of kiara_modules.core           *)
(* (metadata_schemas.py: KiaraFile, KiaraFileBundle, FolderImportConfig)   *)
(* and of the save modules that re-home them (file.py, file_bundle.py).    *)
(*                                                                         *)
(* Strings are TLA+ strings; where the code looks inside a string          *)
(* (endswith, sorted, concatenation) the string is taken apart by Chars.   *)
(* A path is the sequence of its components: /src/a.txt is                 *)
(* <<"src", "a.txt">>.  All paths are absolute and normalised, so          *)
(* os.path.abspath and os.path.realpath leave them as they are.  The empty *)
(* sequence stands for a falsy path argument (None or "").                 *)
(***************************************************************************)
EXTENDS Integers, Sequences, FiniteSets, TLC

VARIABLES
    fs,       \* the filesystem: path -> [kind, bytes]
    frecs,    \* the KiaraFile objects, by identity (index)
    brecs,    \* the KiaraFileBundle objects, by identity (index)
    clock,    \* the next value datetime.now() returns
    last,     \* the last call: its operation, arguments and outcome
    callers   \* the calls that run step by step: each caller's position and locals

vars == <<fs, frecs, brecs, clock, last, callers>>

----------------------------------------------------------------------------
(* Bounds of the model. *)

MaxFiles == 2      \* KiaraFile objects, where files are loaded and copied
MaxSaved == 1      \* KiaraFile objects and bundles, where records are saved
MaxBundles == 2    \* KiaraFileBundle objects
MaxObjects == 4    \* KiaraFile objects, where bundles are saved and read
MaxOnboard == 3    \* KiaraFile objects, where files and bundles are onboarded
MaxCallers == 2    \* callers that run a call at the same time
MaxRaced == 1      \* KiaraFile objects the callers share
MaxSources == 2    \* entries of the sources mapping that is merged

----------------------------------------------------------------------------
(* Strings. *)

\* The characters of every string the model uses.
Chars(s) ==
    CASE s = "src"    -> <<"s", "r", "c">>
      [] s = "a.txt"  -> <<"a", ".", "t", "x", "t">>
      [] s = "b.csv"  -> <<"b", ".", "c", "s", "v">>
      [] s = "c"      -> <<"c">>
      [] s = ".git"   -> <<".", "g", "i", "t">>
      [] s = "my.git" -> <<"m", "y", ".", "g", "i", "t">>
      [] s = "x.txt"  -> <<"x", ".", "t", "x", "t">>
      [] s = "y.txt"  -> <<"y", ".", "t", "x", "t">>
      [] s = "t"      -> <<"t">>
      [] s = "u"      -> <<"u">>
      [] s = "ex"     -> <<"e", "x">>
      [] s = "sub"    -> <<"s", "u", "b">>
      [] s = "store"  -> <<"s", "t", "o", "r", "e">>
      [] s = "nope"   -> <<"n", "o", "p", "e">>
      [] s = ".txt"   -> <<".", "t", "x", "t">>
      [] s = ".csv"   -> <<".", "c", "s", "v">>
      [] s = "txt"    -> <<"t", "x", "t">>
      [] s = "git"    -> <<"g", "i", "t">>
      [] s = ".DS_Store" -> <<".", "D", "S", "_", "S", "t", "o", "r", "e">>
      [] s = "a"      -> <<"a">>
      [] s = "b"      -> <<"b">>
      [] s = "a_a0_b" -> <<"a", "_", "a", "0", "_", "b">>
      [] s = "d1"     -> <<"d", "1">>
      [] s = "d2"     -> <<"d", "2">>
      [] s = "d3"     -> <<"d", "3">>
      [] s = ""       -> <<>>

\* ord(c) of the characters above.
Ord(c) ==
    CASE c = "." -> 46 [] c = "/" -> 47 [] c = "_" -> 95
      [] c = "0" -> 48 [] c = "1" -> 49 [] c = "2" -> 50 [] c = "3" -> 51
      [] c = "a" -> 97 [] c = "b" -> 98 [] c = "c" -> 99 [] c = "e" -> 101
      [] c = "g" -> 103 [] c = "i" -> 105 [] c = "m" -> 109 [] c = "n" -> 110
      [] c = "o" -> 111 [] c = "p" -> 112 [] c = "r" -> 114 [] c = "s" -> 115
      [] c = "t" -> 116 [] c = "u" -> 117 [] c = "v" -> 118 [] c = "x" -> 120
      [] c = "y" -> 121 [] c = "D" -> 68 [] c = "S" -> 83

\* str.endswith on character sequences.
EndsWithChars(s, suf) ==
    /\ Len(suf) <= Len(s)
    /\ SubSeq(s, Len(s) - Len(suf) + 1, Len(s)) = suf

\* filename.endswith(ext)
EndsWith(name, ext) == EndsWithChars(Chars(name), Chars(ext))

\* s < t for Python strings: lexicographic by code point.
RECURSIVE StrLess(_, _)
StrLess(s, t) ==
    IF t = <<>> THEN FALSE
    ELSE IF s = <<>> THEN TRUE
    ELSE IF Ord(Head(s)) # Ord(Head(t)) THEN Ord(Head(s)) < Ord(Head(t))
    ELSE StrLess(Tail(s), Tail(t))

----------------------------------------------------------------------------
(* Paths. *)

NoPath == <<>>

Basename(p) == p[Len(p)]
Dirname(p) == SubSeq(p, 1, Len(p) - 1)
Join(a, b) == a \o b
IsPrefix(a, b) == Len(a) <= Len(b) /\ SubSeq(b, 1, Len(a)) = a
\* The number of leading components a and b share.
RECURSIVE CommonLen(_, _)
CommonLen(a, b) ==
    IF a = <<>> \/ b = <<>> \/ Head(a) # Head(b) THEN 0
    ELSE 1 + CommonLen(Tail(a), Tail(b))
\* os.path.relpath(p, start): up from start to the common directory, then
\* down to p; for p below start, the components of p after start.
Relpath(p, start) ==
    LET k == CommonLen(p, start)
    IN  [i \in 1..(Len(start) - k) |-> ".."] \o SubSeq(p, k + 1, Len(p))

\* The string of a relative path: its components joined by os.path.sep.
RECURSIVE PathStr(_)
PathStr(p) ==
    IF p = <<>> THEN <<>>
    ELSE IF Len(p) = 1 THEN Chars(p[1])
    ELSE Chars(p[1]) \o <<"/">> \o PathStr(Tail(p))

----------------------------------------------------------------------------
(* The filesystem. *)

DirNode == [kind |-> "dir", bytes |-> <<>>]
FileNode(b) == [kind |-> "file", bytes |-> b]

Exists(f, p) == p \in DOMAIN f
IsFile(f, p) == Exists(f, p) /\ f[p].kind = "file"
IsDir(f, p) == Exists(f, p) /\ f[p].kind = "dir"

\* The directories os.makedirs(d, exist_ok=True) has to make or find.
Ancestors(d) == {SubSeq(d, 1, n) : n \in 1..Len(d)}
\* os.makedirs raises when a component of d is a regular file.
CanMakeDirs(f, d) == \A a \in Ancestors(d) : ~IsFile(f, a)
MakeDirs(f, d) ==
    [p \in DOMAIN f \cup Ancestors(d) |-> IF p \in DOMAIN f THEN f[p] ELSE DirNode]
\* shutil.copy2(source, target), target absent and its directory present
Copy2(f, source, target) ==
    [p \in DOMAIN f \cup {target} |-> IF p = target THEN FileNode(f[source].bytes) ELSE f[p]]

InitFs ==
    (<<"src">> :> DirNode)
    @@ (<<"src", "a.txt">> :> FileNode(<<1>>))
    @@ (<<"src", "b.csv">> :> FileNode(<<2>>))
    @@ (<<"src", ".git">> :> DirNode)
    @@ (<<"src", ".git", "x.txt">> :> FileNode(<<1>>))
    @@ (<<"src", "my.git">> :> DirNode)
    @@ (<<"src", "my.git", "y.txt">> :> FileNode(<<2>>))
    @@ (<<"ex">> :> DirNode)

----------------------------------------------------------------------------
(* Hashing and mime types. *)

NoHash == <<>>

\* hashlib.sha3_256 of a file's bytes, as a hex string.  The digest is a
\* function of the bytes alone and differs for the contents used here.
Sha3(bytes) ==
    CASE bytes = <<1>>    -> <<"a", "0">>
      [] bytes = <<2>>    -> <<"3", "e">>
      [] bytes = <<9, 1>> -> <<"0", "b">>
      [] bytes = <<>>     -> <<"c", "1">>

NoMime == ""

\* mimetypes.guess_type(path)[0]: by the extension of the file name.
GuessType(p) ==
    IF EndsWith(Basename(p), ".txt") THEN "text/plain"
    ELSE IF EndsWith(Basename(p), ".csv") THEN "text/csv"
    ELSE NoMime

\* filetype.guess(path): by the first bytes of the file.
FiletypeGuess(f, p) ==
    IF Len(f[p].bytes) > 0 /\ f[p].bytes[1] = 9 THEN "image/png" ELSE NoMime

----------------------------------------------------------------------------
(* KiaraFile. *)

NoFile ==
    [orig_filename |-> "", orig_path |-> NoPath, import_time |-> 0,
     mime_type |-> NoMime, file_name |-> "", size |-> 0, path |-> NoPath,
     is_onboarded |-> FALSE, file_hash |-> NoHash, reads |-> 0]

\* Every failure raised as a plain Exception.
Raised_generic(kind, f) == [status |-> "Exception", fs |-> f, rec |-> NoFile]

Raised(kind, f) == [status |-> kind, fs |-> f, rec |-> NoFile]

\* The exists-guard without its test: every target counts as free.
TargetTaken_never(f, target) == FALSE

\* target and os.path.exists(target)
TargetTaken(f, target) == target # NoPath /\ Exists(f, target)

\* Without a target, the file name of the source in place of its path.
LoadTarget_name_only(source, target) ==
    IF target # NoPath THEN target ELSE <<Basename(source)>>

\* The path load_file copies to and probes, after the optional copy.
LoadTarget(source, target) == IF target # NoPath THEN target ELSE source

\* The resolution with the probe of the content asked first.
ResolveMime_sniff_first(r, sniffed) ==
    IF sniffed # NoMime THEN sniffed
    ELSE IF r # NoMime THEN r
    ELSE "application/octet-stream"

\* The mime type load_file settles on: r is what the lookup by extension
\* gave, sniffed what the probe of the content gave.
ResolveMime(r, sniffed) ==
    IF r # NoMime THEN r
    ELSE IF sniffed = NoMime THEN "application/octet-stream"
    ELSE sniffed

\* The end of load_file: the mime type of the file at tgt is settled and the
\* record is made; size is what os.stat gave for the source.
NewFile(f, source, tgt, size, incl_orig_path, now) ==
    [orig_filename |-> Basename(source),
     orig_path |-> IF incl_orig_path THEN source ELSE NoPath,
     import_time |-> now,
     mime_type |-> ResolveMime(GuessType(tgt), FiletypeGuess(f, tgt)),
     file_name |-> Basename(source),
     size |-> size,
     path |-> tgt,
     is_onboarded |-> FALSE,
     file_hash |-> NoHash,
     reads |-> 0]

\* KiaraFile.load_file.  now is what datetime.now() returns.  The result is
\* the outcome, the filesystem afterwards and the new record.
LoadFile(f, source, target, incl_orig_path, now) ==
    IF source = NoPath THEN Raised("ValueError", f)
    ELSE IF ~Exists(f, source) THEN Raised("ValueError", f)
    ELSE IF ~IsFile(f, source) THEN Raised("ValueError", f)
    ELSE IF TargetTaken(f, target) THEN Raised("ValueError", f)
    ELSE IF target # NoPath /\ ~CanMakeDirs(f, Dirname(target)) THEN Raised("OSError", f)
    ELSE
        LET f2 == IF target # NoPath
                  THEN Copy2(MakeDirs(f, Dirname(target)), source, target)
                  ELSE f
        IN  [status |-> "ok",
             fs |-> f2,
             rec |-> NewFile(f2, source, LoadTarget(source, target),
                             Len(f[source].bytes), incl_orig_path, now)]

\* The overlay without the import time: the copy keeps the time of the copy.
CopyOverlay_new_time(self, fm, incl_orig_path) ==
    [fm EXCEPT !.orig_path = IF incl_orig_path THEN self.orig_path ELSE NoPath,
               !.orig_filename = self.orig_filename,
               !.file_hash = IF self.file_hash # NoHash THEN self.file_hash ELSE @]

\* The overlay without the hash: the copy starts unhashed.
CopyOverlay_no_hash(self, fm, incl_orig_path) ==
    [fm EXCEPT !.orig_path = IF incl_orig_path THEN self.orig_path ELSE NoPath,
               !.orig_filename = self.orig_filename,
               !.import_time = self.import_time]

\* The overlay that also takes over is_onboarded of the record copied.
CopyOverlay_keep_onboarded(self, fm, incl_orig_path) ==
    [fm EXCEPT !.orig_path = IF incl_orig_path THEN self.orig_path ELSE NoPath,
               !.orig_filename = self.orig_filename,
               !.import_time = self.import_time,
               !.is_onboarded = self.is_onboarded,
               !.file_hash = IF self.file_hash # NoHash THEN self.file_hash ELSE @]

\* The overlay that takes over orig_path whatever the flag says.
CopyOverlay_always_orig_path(self, fm, incl_orig_path) ==
    [fm EXCEPT !.orig_path = self.orig_path,
               !.orig_filename = self.orig_filename,
               !.import_time = self.import_time,
               !.file_hash = IF self.file_hash # NoHash THEN self.file_hash ELSE @]

\* The overlay copy_file puts on the record load_file returned.
CopyOverlay(self, fm, incl_orig_path) ==
    [fm EXCEPT !.orig_path = IF incl_orig_path THEN self.orig_path ELSE NoPath,
               !.orig_filename = self.orig_filename,
               !.import_time = self.import_time,
               !.file_hash = IF self.file_hash # NoHash THEN self.file_hash ELSE @]

\* KiaraFile.copy_file
CopyFile(f, self, target, incl_orig_path, now) ==
    LET res == LoadFile(f, self.path, target, FALSE, now)
    IN  IF res.status # "ok" THEN res
        ELSE [res EXCEPT !.rec = CopyOverlay(self, res.rec, incl_orig_path)]

\* KiaraFile.file_hash: the record afterwards; reads counts the times the
\* file at self.path was opened and digested.
Memoized(self) == self.file_hash # NoHash

HashedFile_recompute(f, self) ==
    [self EXCEPT !.file_hash = Sha3(f[self.path].bytes), !.reads = @ + 1]

HashedFile(f, self) ==
    IF Memoized(self) THEN self
    ELSE [self EXCEPT !.file_hash = Sha3(f[self.path].bytes), !.reads = @ + 1]

\* save_value with the record marked before the copy is made: a copy that
\* fails leaves the record onboarded at the target.
SaveFile_mark_first(f, file_obj, base_path, now) ==
    LET full_target == Join(base_path, <<file_obj.file_name>>)
        marked == [file_obj EXCEPT !.is_onboarded = TRUE, !.path = full_target]
    IN  IF ~CanMakeDirs(f, Dirname(full_target))
        THEN [status |-> "OSError", fs |-> f, rec |-> file_obj]
        ELSE LET f1 == MakeDirs(f, Dirname(full_target))
                 res == CopyFile(f1, file_obj, full_target, FALSE, now)
             IN  IF Exists(f1, full_target)
                 THEN [status |-> "KiaraProcessingException", fs |-> f1, rec |-> file_obj]
                 ELSE [status |-> res.status, fs |-> res.fs, rec |-> marked]

\* SaveFileModule.save_value on the record file_obj: the outcome, the
\* filesystem and file_obj afterwards.  The copy fm is dropped on return.
SaveFile(f, file_obj, base_path, now) ==
    LET full_target == Join(base_path, <<file_obj.file_name>>)
    IN  IF ~CanMakeDirs(f, Dirname(full_target))
        THEN [status |-> "OSError", fs |-> f, rec |-> file_obj]
        ELSE LET f1 == MakeDirs(f, Dirname(full_target))
                 res == CopyFile(f1, file_obj, full_target, FALSE, now)
             IN  IF Exists(f1, full_target)
                 THEN [status |-> "KiaraProcessingException", fs |-> f1, rec |-> file_obj]
                 ELSE IF res.status # "ok"
                 THEN [status |-> res.status, fs |-> res.fs, rec |-> file_obj]
                 ELSE [status |-> "ok",
                       fs |-> res.fs,
                       rec |-> [file_obj EXCEPT !.is_onboarded = TRUE, !.path = res.rec.path]]

----------------------------------------------------------------------------
(* FolderImportConfig.  An Optional[List[str]] field is a record: given is   *)
(* FALSE for None; the list is kept as the set of its items, because the     *)
(* code only asks whether some item matches (any, in).                      *)

NoList == [given |-> FALSE, items |-> {}]
List(items) == [given |-> TRUE, items |-> items]
\* bool(l) of an Optional[List]: None and [] are both falsy.
Truthy(l) == l.given /\ l.items # {}

NoConfig == [include_files |-> NoList, exclude_dirs |-> NoList, exclude_files |-> NoList]

\* kiara.defaults.DEFAULT_EXCLUDE_FILES, the default of exclude_files, and
\* FolderImportConfig() with every field at its default.
DefaultExcludeFiles == List({".DS_Store"})
DefaultConfig == [NoConfig EXCEPT !.exclude_files = DefaultExcludeFiles]

\* include_file with the two tests in the other order: a file that matches an
\* include suffix is taken before the exclude suffixes are looked at.
include_file_include_first(filename, cfg) ==
    IF Truthy(cfg.include_files) /\ \E ext \in cfg.include_files.items : EndsWith(filename, ext)
    THEN TRUE
    ELSE IF Truthy(cfg.exclude_files) /\ \E ext \in cfg.exclude_files.items : EndsWith(filename, ext)
    THEN FALSE
    ELSE ~Truthy(cfg.include_files)

\* import_folder's local function include_file
include_file(filename, cfg) ==
    IF Truthy(cfg.exclude_files) /\ \E ext \in cfg.exclude_files.items : EndsWith(filename, ext)
    THEN FALSE
    ELSE IF ~Truthy(cfg.include_files) THEN TRUE
    ELSE \E ext \in cfg.include_files.items : EndsWith(filename, ext)

\* The walk without the pruning of dirnames.
KeepDir_unpruned(dirname, cfg) == TRUE

\* dirnames[:] = [d for d in dirnames if d not in exclude_dirs]
KeepDir(dirname, cfg) ==
    IF Truthy(cfg.exclude_dirs) THEN dirname \notin cfg.exclude_dirs.items ELSE TRUE

----------------------------------------------------------------------------
(* os.walk(source, topdown=True) with the pruning and filtering of          *)
(* import_folder.  The order in which a directory lists its entries is not  *)
(* fixed, so a walk is one of several sequences of file paths.              *)

Children(f, d) == {p \in DOMAIN f : Len(p) = Len(d) + 1 /\ IsPrefix(d, p)}

\* All the orders in which the elements of S can be listed.
Perms(S) ==
    {s \in [1..Cardinality(S) -> S] : \A i, j \in 1..Cardinality(S) : s[i] = s[j] => i = j}

\* The files of directory d the loop body runs for.
WalkFiles(f, d, cfg) ==
    {p \in Children(f, d) : IsFile(f, p) /\ include_file(Basename(p), cfg)}
\* The directories below d the walk descends into.
WalkDirs(f, d, cfg) ==
    {p \in Children(f, d) : IsDir(f, p) /\ KeepDir(Basename(p), cfg)}

RECURSIVE Walks(_, _, _)
RECURSIVE WalksOfDirs(_, _, _)
\* The walks of the directories ds, one after the other.
WalksOfDirs(f, ds, cfg) ==
    IF ds = <<>> THEN {<<>>}
    ELSE {w \o rest : w \in Walks(f, Head(ds), cfg), rest \in WalksOfDirs(f, Tail(ds), cfg)}
\* The walks below d: the files of d, then each kept directory in turn.
Walks(f, d, cfg) ==
    UNION {{fo \o rest : rest \in WalksOfDirs(f, dord, cfg)} :
              fo \in Perms(WalkFiles(f, d, cfg)), dord \in Perms(WalkDirs(f, d, cfg))}

----------------------------------------------------------------------------
(* KiaraFileBundle.  included_files is the dict in insertion order: a       *)
(* sequence of [key, fid], fid the identity of the KiaraFile in frecs.      *)

NoSize == -1

NoBundle ==
    [orig_bundle_name |-> "", bundle_name |-> "", orig_path |-> NoPath,
     import_time |-> 0, number_of_files |-> 0, included_files |-> <<>>,
     size |-> 0, path |-> NoPath, is_onboarded |-> FALSE,
     file_bundle_hash |-> NoHash]

Keys(b) == {b.included_files[i].key : i \in 1..Len(b.included_files)}
FileOf(b, k) ==
    b.included_files[CHOOSE i \in 1..Len(b.included_files) : b.included_files[i].key = k].fid

RECURSIVE SumSizes(_, _)
SumSizes(heap, files) ==
    IF files = <<>> THEN 0 ELSE heap[Head(files).fid].size + SumSizes(heap, Tail(files))

\* create_from_file_models with the count one short of the files.
CreateFromFileModels_miscount(heap, files, orig_bundle_name, orig_path, path, sum_size, now) ==
    [orig_bundle_name |-> orig_bundle_name,
     bundle_name |-> Basename(path),
     orig_path |-> orig_path,
     import_time |-> now,
     number_of_files |-> IF files = <<>> THEN 0 ELSE Len(files) - 1,
     included_files |-> files,
     size |-> IF sum_size = NoSize THEN SumSizes(heap, files) ELSE sum_size,
     path |-> path,
     is_onboarded |-> FALSE,
     file_bundle_hash |-> NoHash]

\* KiaraFileBundle.create_from_file_models; heap holds the KiaraFile objects.
CreateFromFileModels(heap, files, orig_bundle_name, orig_path, path, sum_size, now) ==
    [orig_bundle_name |-> orig_bundle_name,
     bundle_name |-> Basename(path),
     orig_path |-> orig_path,
     import_time |-> now,
     number_of_files |-> Len(files),
     included_files |-> files,
     size |-> IF sum_size = NoSize THEN SumSizes(heap, files) ELSE sum_size,
     path |-> path,
     is_onboarded |-> FALSE,
     file_bundle_hash |-> NoHash]

BundleRaised(kind, f, heap) ==
    [status |-> kind, fs |-> f, heap |-> heap, bundle |-> NoBundle, now |-> 0]

\* The loop of import_folder over the files of the walk.  acc is the state
\* of the loop: filesystem, heap, included_files, sum_size, clock.
RECURSIVE ImportLoop(_, _, _, _, _)
ImportLoop(acc, walk, source, target, incl_orig_path) ==
    IF walk = <<>> \/ acc.status # "ok" THEN acc
    ELSE
        LET full_path == Head(walk)
            rel_path == Relpath(full_path, source)
            target_path == IF target # NoPath THEN Join(target, rel_path) ELSE NoPath
            res == LoadFile(acc.fs, full_path, target_path, incl_orig_path, acc.now)
        IN  IF res.status # "ok"
            THEN [acc EXCEPT !.status = res.status, !.fs = res.fs]
            ELSE ImportLoop(
                    [status |-> "ok",
                     fs |-> res.fs,
                     heap |-> Append(acc.heap, res.rec),
                     files |-> Append(acc.files, [key |-> rel_path, fid |-> Len(acc.heap) + 1]),
                     sum_size |-> acc.sum_size + res.rec.size,
                     now |-> acc.now + 1],
                    Tail(walk), source, target, incl_orig_path)

\* The bundle at the source folder, whether or not its files were copied.
BundlePath_source(source, target) == source

\* The path of the bundle import_folder makes: the target if one was given.
BundlePath(source, target) == IF target # NoPath THEN target ELSE source

\* KiaraFileBundle.import_folder, the directories listing as in walk.
ImportFolder(f, heap, source, target, cfg, incl_orig_path, now, walk) ==
    IF source = NoPath THEN BundleRaised("ValueError", f, heap)
    ELSE IF ~Exists(f, source) THEN BundleRaised("ValueError", f, heap)
    ELSE IF ~IsDir(f, source) THEN BundleRaised("ValueError", f, heap)
    ELSE IF TargetTaken(f, target) THEN BundleRaised("ValueError", f, heap)
    ELSE
        LET done == ImportLoop([status |-> "ok", fs |-> f, heap |-> heap, files |-> <<>>,
                                sum_size |-> 0, now |-> now],
                               walk, source, target, incl_orig_path)
        IN  IF done.status # "ok" THEN BundleRaised(done.status, done.fs, heap)
            ELSE [status |-> "ok",
                  fs |-> done.fs,
                  heap |-> done.heap,
                  bundle |-> CreateFromFileModels(
                                done.heap, done.files, Basename(source),
                                IF incl_orig_path THEN source ELSE NoPath,
                                BundlePath(source, target),
                                done.sum_size, done.now),
                  now |-> done.now + 1]

\* The loop of copy_bundle over included_files.items().
RECURSIVE CopyLoop(_, _, _, _)
CopyLoop(acc, items, heap0, target_path) ==
    IF items = <<>> \/ acc.status # "ok" THEN acc
    ELSE
        LET rel_path == Head(items).key
            item == heap0[Head(items).fid]
            res == CopyFile(acc.fs, item, Join(target_path, rel_path), FALSE, acc.now)
        IN  IF res.status # "ok"
            THEN [acc EXCEPT !.status = res.status, !.fs = res.fs]
            ELSE CopyLoop(
                    [status |-> "ok",
                     fs |-> res.fs,
                     heap |-> Append(acc.heap, res.rec),
                     files |-> Append(acc.files, [key |-> rel_path, fid |-> Len(acc.heap) + 1]),
                     sum_size |-> 0,
                     now |-> acc.now + 1],
                    Tail(items), heap0, target_path)

\* The copy without the memoized hash of the bundle it was copied from.
CarryBundleHash_none(self, fb) == fb

\* The end of copy_bundle: fb takes over the memoized hash of self.
CarryBundleHash(self, fb) ==
    [fb EXCEPT !.file_bundle_hash =
        IF self.file_bundle_hash # NoHash THEN self.file_bundle_hash ELSE @]

\* The test of copy_bundle left out: no target counts as the current path.
SamePath_never(self, target_path) == FALSE

\* target_path == self.path
SamePath(self, target_path) == target_path = self.path

\* KiaraFileBundle.copy_bundle
CopyBundle(f, heap, self, target_path, incl_orig_path, now) ==
    IF SamePath(self, target_path) THEN BundleRaised("Exception", f, heap)
    ELSE
        LET done == CopyLoop([status |-> "ok", fs |-> f, heap |-> heap, files |-> <<>>,
                              sum_size |-> 0, now |-> now],
                             self.included_files, heap, target_path)
            fb == CreateFromFileModels(
                      done.heap, done.files, self.orig_bundle_name,
                      IF incl_orig_path THEN self.orig_path ELSE NoPath,
                      target_path, self.size, done.now)
        IN  IF done.status # "ok" THEN BundleRaised(done.status, done.fs, heap)
            ELSE [status |-> "ok",
                  fs |-> done.fs,
                  heap |-> done.heap,
                  bundle |-> CarryBundleHash(self, fb),
                  now |-> done.now + 1]

\* sorted(keys): the keys in ascending order of their strings.
RECURSIVE Sorted(_)
Sorted(ks) ==
    IF ks = {} THEN <<>>
    ELSE LET m == CHOOSE k \in ks : \A o \in ks \ {k} : StrLess(PathStr(k), PathStr(o))
         IN  <<m>> \o Sorted(ks \ {m})

\* The keys as the dict holds them, in insertion order.
HashOrder_insertion(b) == [i \in 1..Len(b.included_files) |-> b.included_files[i].key]

\* The order in which file_bundle_hash visits the keys.
HashOrder(b) == Sorted(Keys(b))

\* The loop of file_bundle_hash: acc is the heap and the string built so far.
RECURSIVE HashLoop(_, _, _, _)
HashLoop(acc, paths, f, b) ==
    IF paths = <<>> THEN acc
    ELSE
        LET path == Head(paths)
            fid == FileOf(b, path)
            fm == HashedFile(f, acc.heap[fid])
        IN  HashLoop([heap |-> [acc.heap EXCEPT ![fid] = fm],
                      hashes |-> acc.hashes \o <<"_">> \o PathStr(path) \o <<"_">> \o fm.file_hash],
                     Tail(paths), f, b)

\* hashlib.sha3_256(s.encode("utf-8")).hexdigest(): a function of the string
\* alone, taken to differ for different strings.
Sha3Str(s) == <<"sha3_256", s>>

\* KiaraFileBundle.file_bundle_hash: the heap and the bundle afterwards.
HashedBundle(f, heap, self) ==
    IF self.file_bundle_hash # NoHash THEN [heap |-> heap, bundle |-> self]
    ELSE LET done == HashLoop([heap |-> heap, hashes |-> <<>>], HashOrder(self), f, self)
         IN  [heap |-> done.heap,
              bundle |-> [self EXCEPT !.file_bundle_hash = Sha3Str(done.hashes)]]

\* The end of save_value with the files of the copy left unmarked.
SavedBundle_files_unmarked(heap, bundle, fb, now) ==
    IF fb.status # "ok"
    THEN [status |-> fb.status, fs |-> fb.fs, heap |-> heap, bundle |-> bundle, now |-> now]
    ELSE [status |-> "ok",
          fs |-> fb.fs,
          heap |-> fb.heap,
          bundle |-> [bundle EXCEPT !.included_files = fb.bundle.included_files,
                                    !.is_onboarded = TRUE,
                                    !.path = fb.bundle.path],
          now |-> fb.now]

\* The end of save_value with the path of the bundle left as it was.
SavedBundle_keep_path(heap, bundle, fb, now) ==
    IF fb.status # "ok"
    THEN [status |-> fb.status, fs |-> fb.fs, heap |-> heap, bundle |-> bundle, now |-> now]
    ELSE [status |-> "ok",
          fs |-> fb.fs,
          heap |-> [i \in DOMAIN fb.heap |->
                       IF \E j \in 1..Len(fb.bundle.included_files) :
                              fb.bundle.included_files[j].fid = i
                       THEN [fb.heap[i] EXCEPT !.is_onboarded = TRUE]
                       ELSE fb.heap[i]],
          bundle |-> [bundle EXCEPT !.included_files = fb.bundle.included_files,
                                    !.is_onboarded = TRUE],
          now |-> fb.now]

\* The end of SaveFileBundleType.save_value, fb being what copy_bundle gave:
\* the bundle takes over the files of the copy fb, which are marked as
\* onboarded; its other fields stay.  A copy that failed leaves all as it was.
SavedBundle(heap, bundle, fb, now) ==
    IF fb.status # "ok"
    THEN [status |-> fb.status, fs |-> fb.fs, heap |-> heap, bundle |-> bundle, now |-> now]
    ELSE [status |-> "ok",
          fs |-> fb.fs,
          heap |-> [i \in DOMAIN fb.heap |->
                       IF \E j \in 1..Len(fb.bundle.included_files) :
                              fb.bundle.included_files[j].fid = i
                       THEN [fb.heap[i] EXCEPT !.is_onboarded = TRUE]
                       ELSE fb.heap[i]],
          bundle |-> [bundle EXCEPT !.included_files = fb.bundle.included_files,
                                    !.is_onboarded = TRUE,
                                    !.path = fb.bundle.path],
          now |-> fb.now]

\* SaveFileBundleType.save_value on the bundle: the outcome, the filesystem,
\* the heap and the bundle afterwards.
SaveBundle(f, heap, bundle, base_path, now) ==
    LET target_path == Join(base_path, <<bundle.bundle_name>>)
    IN  CHOOSE res \in {SavedBundle(heap, bundle, fb, now) :
                           fb \in {CopyBundle(f, heap, bundle, target_path, FALSE, now)}} : TRUE

\* f.read() of a file opened with encoding="utf-8": bytes that start with 9
\* are not valid UTF-8 and the read raises.
Utf8Ok(bytes) == ~(Len(bytes) > 0 /\ bytes[1] = 9)

\* The loop of read_text_file_contents over included_files.values(): acc is
\* the outcome and content_dict so far, as a sequence of [key, content].
RECURSIVE ReadLoop(_, _, _, _, _, _)
ReadLoop(acc, items, f, heap, self, ignore_errors) ==
    IF items = <<>> \/ acc.status # "ok" THEN acc
    ELSE
        LET fm == heap[Head(items).fid]
            rel_path == Relpath(fm.path, self.path)
        IN  IF ~IsFile(f, fm.path)
            THEN [acc EXCEPT !.status = "OSError"]
            ELSE IF Utf8Ok(f[fm.path].bytes)
            THEN ReadLoop([acc EXCEPT !.content =
                               Append(@, [key |-> rel_path, content |-> f[fm.path].bytes])],
                          Tail(items), f, heap, self, ignore_errors)
            ELSE IF ignore_errors
            THEN ReadLoop(acc, Tail(items), f, heap, self, ignore_errors)
            ELSE [acc EXCEPT !.status = "Exception"]

\* KiaraFileBundle.read_text_file_contents
ReadTextFileContents(f, heap, self, ignore_errors) ==
    ReadLoop([status |-> "ok", content |-> <<>>], self.included_files, f, heap, self,
             ignore_errors)

----------------------------------------------------------------------------
(* The calls, as actions. *)

Call(op, status, self, res, source, target, incl, val) ==
    [op |-> op, status |-> status, self |-> self, res |-> res,
     source |-> source, target |-> target, incl |-> incl, val |-> val,
     cfg |-> NoConfig]

\* The callers whose calls run step by step, and a caller between two calls.
Callers == 1..MaxCallers
NoCaller ==
    [pc |-> "idle", op |-> "", self |-> 0, source |-> NoPath, target |-> NoPath,
     incl |-> FALSE, size |-> 0, digest |-> NoHash, status |-> "", val |-> NoHash]

Init ==
    /\ fs = InitFs
    /\ frecs = <<>>
    /\ brecs = <<>>
    /\ clock = 1
    /\ last = Call("init", "ok", 0, 0, NoPath, NoPath, FALSE, NoHash)
    /\ callers = [c \in Callers |-> NoCaller]

\* The arguments the file-level calls are made with.
FileSources == {<<"src", "a.txt">>, <<"src">>, <<"nope">>, NoPath}
FileTargets ==
    {<<"t", "a.txt">>, <<"t", "u">>, <<"src", "b.csv">>, <<"ex">>, <<"src", "b.csv", "u">>}

\* KiaraFile.load_file(source, target, incl_orig_path)
DoLoadFile(source, target, incl) ==
    \E res \in {LoadFile(fs, source, target, incl, clock)} :
        /\ fs' = res.fs
        /\ frecs' = IF res.status = "ok" THEN Append(frecs, res.rec) ELSE frecs
        /\ clock' = IF res.status = "ok" THEN clock + 1 ELSE clock
        /\ last' = Call("load_file", res.status, 0,
                        IF res.status = "ok" THEN Len(frecs) + 1 ELSE 0,
                        source, target, incl, NoHash)
        /\ UNCHANGED <<brecs, callers>>

\* frecs[i].copy_file(target, incl_orig_path)
DoCopyFile(i, target, incl) ==
    \E res \in {CopyFile(fs, frecs[i], target, incl, clock)} :
        /\ fs' = res.fs
        /\ frecs' = IF res.status = "ok" THEN Append(frecs, res.rec) ELSE frecs
        /\ clock' = IF res.status = "ok" THEN clock + 1 ELSE clock
        /\ last' = Call("copy_file", res.status, i,
                        IF res.status = "ok" THEN Len(frecs) + 1 ELSE 0,
                        frecs[i].path, target, incl, NoHash)
        /\ UNCHANGED <<brecs, callers>>

\* frecs[i].file_hash
DoFileHash(i) ==
    /\ IsFile(fs, frecs[i].path) \/ Memoized(frecs[i])
    /\ frecs' = [frecs EXCEPT ![i] = HashedFile(fs, frecs[i])]
    /\ last' = Call("file_hash", "ok", i, 0, NoPath, NoPath, FALSE, frecs'[i].file_hash)
    /\ UNCHANGED <<fs, brecs, clock, callers>>

\* Something outside the program rewrites the file at p.
WriteFile(p, bytes) ==
    /\ IsFile(fs, p)
    /\ fs[p].bytes # bytes
    /\ fs' = [fs EXCEPT ![p] = FileNode(bytes)]
    /\ last' = Call("write", "ok", 0, 0, p, NoPath, FALSE, NoHash)
    /\ UNCHANGED <<frecs, brecs, clock, callers>>

\* SaveFileModule.save_value(frecs[i], value_id, base_path)
DoSaveFile(i, base_path) ==
    \E res \in {SaveFile(fs, frecs[i], base_path, clock)} :
        /\ fs' = res.fs
        /\ frecs' = [frecs EXCEPT ![i] = res.rec]
        /\ clock' = IF res.status = "ok" THEN clock + 1 ELSE clock
        /\ last' = Call("save_file", res.status, i, 0, frecs[i].path,
                        Join(base_path, <<frecs[i].file_name>>), FALSE, NoHash)
        /\ UNCHANGED <<brecs, callers>>

\* KiaraFileBundle.import_folder(source, target, cfg, incl_orig_path)
ImportCall(source, target, cfg, incl) ==
    \E walk \in (IF IsDir(fs, source) THEN Walks(fs, source, cfg) ELSE {<<>>}) :
        \E res \in {ImportFolder(fs, frecs, source, target, cfg, incl, clock, walk)} :
            /\ fs' = res.fs
            /\ frecs' = res.heap
            /\ brecs' = IF res.status = "ok" THEN Append(brecs, res.bundle) ELSE brecs
            /\ clock' = IF res.status = "ok" THEN res.now ELSE clock
            /\ last' = [Call("import_folder", res.status, 0,
                             IF res.status = "ok" THEN Len(brecs) + 1 ELSE 0,
                             source, target, incl, NoHash) EXCEPT !.cfg = cfg]
            /\ UNCHANGED callers

\* The configurations the file-level model imports folders with: they take one
\* file and two files of the source tree.
FewConfigs ==
    {[NoConfig EXCEPT !.include_files = List({".csv"})],
     [NoConfig EXCEPT !.include_files = List({".txt"}), !.exclude_dirs = List({".git"})]}

\* The targets of the file-level calls where records are copied and hashed: two
\* paths that are free, one that is taken.
FewTargets == {<<"t", "a.txt">>, <<"t", "u">>, <<"ex">>}

\* Records are loaded, copied and hashed while a file is rewritten.
NextFile ==
    \/ \E s \in FileSources, t \in FewTargets \cup {NoPath}, incl \in BOOLEAN :
           Len(frecs) < MaxFiles /\ DoLoadFile(s, t, incl)
    \/ \E i \in 1..Len(frecs), t \in FewTargets, incl \in BOOLEAN :
           Len(frecs) < MaxFiles /\ DoCopyFile(i, t, incl)
    \/ \E i \in 1..Len(frecs) : DoFileHash(i)
    \/ WriteFile(<<"src", "a.txt">>, <<9, 1>>)

SpecFile == Init /\ [][NextFile]_vars

\* Files and folders are loaded, copied and imported to targets that exist or
\* do not.
NextTarget ==
    \/ \E s \in FileSources, t \in FileTargets \cup {NoPath}, incl \in BOOLEAN :
           Len(frecs) < MaxFiles /\ DoLoadFile(s, t, incl)
    \/ \E i \in 1..Len(frecs), t \in FileTargets, incl \in BOOLEAN :
           Len(frecs) < MaxFiles /\ DoCopyFile(i, t, incl)
    \/ \E s \in {<<"src">>, <<"nope">>}, t \in {NoPath, <<"t">>, <<"ex">>},
          cfg \in FewConfigs, incl \in BOOLEAN :
           /\ Len(brecs) < MaxBundles
           /\ ImportCall(s, t, cfg, incl)
           /\ Len(frecs') <= MaxFiles

SpecTarget == Init /\ [][NextTarget]_vars

\* One record is hashed and saved while its file is rewritten.
NextSave ==
    \/ \E s \in FileSources, t \in FileTargets \cup {NoPath}, incl \in BOOLEAN :
           Len(frecs) < MaxSaved /\ DoLoadFile(s, t, incl)
    \/ \E i \in 1..Len(frecs) : DoFileHash(i)
    \/ \E i \in 1..Len(frecs), base \in {<<"store">>, <<"t">>} : DoSaveFile(i, base)
    \/ \E b \in {<<1>>, <<2>>} : WriteFile(<<"src", "a.txt">>, b)

SpecSave == Init /\ [][NextSave]_vars

----------------------------------------------------------------------------
(* Bundles are imported, copied and hashed. *)

BundleConfigs == {NoConfig, [NoConfig EXCEPT !.exclude_dirs = List({".git"})]}

\* The targets of copy_bundle: a path that is free, a directory that exists
\* and is empty, a directory that holds files of the bundle's names.
CopyTargets == {<<"u">>, <<"ex">>, <<"src">>}

\* brecs[b].copy_bundle(target_path, incl_orig_path)
DoCopyBundle(b, target_path, incl) ==
    \E res \in {CopyBundle(fs, frecs, brecs[b], target_path, incl, clock)} :
        /\ fs' = res.fs
        /\ frecs' = res.heap
        /\ brecs' = IF res.status = "ok" THEN Append(brecs, res.bundle) ELSE brecs
        /\ clock' = IF res.status = "ok" THEN res.now ELSE clock
        /\ last' = Call("copy_bundle", res.status, b,
                        IF res.status = "ok" THEN Len(brecs) + 1 ELSE 0,
                        brecs[b].path, target_path, incl, NoHash)
        /\ UNCHANGED callers

\* brecs[b].file_bundle_hash
DoBundleHash(b) ==
    \E res \in {HashedBundle(fs, frecs, brecs[b])} :
        /\ frecs' = res.heap
        /\ brecs' = [brecs EXCEPT ![b] = res.bundle]
        /\ last' = Call("file_bundle_hash", "ok", b, 0, NoPath, NoPath, FALSE,
                        res.bundle.file_bundle_hash)
        /\ UNCHANGED <<fs, clock, callers>>

NextBundle ==
    \/ \E t \in {NoPath, <<"t">>}, cfg \in BundleConfigs :
           Len(brecs) < MaxBundles /\ ImportCall(<<"src">>, t, cfg, TRUE)
    \/ \E b \in 1..Len(brecs), t \in CopyTargets, incl \in BOOLEAN :
           Len(brecs) < MaxBundles /\ DoCopyBundle(b, t, incl)
    \/ \E b \in 1..Len(brecs) : DoBundleHash(b)

SpecBundle == Init /\ [][NextBundle]_vars

----------------------------------------------------------------------------
(* Bundles are saved to the store, copied and read while the files below    *)
(* the source folder are rewritten and removed.                             *)

\* SaveFileBundleType.save_value(brecs[b], value_id, base_path)
DoSaveBundle(b, base_path) ==
    \E res \in {SaveBundle(fs, frecs, brecs[b], base_path, clock)} :
        /\ fs' = res.fs
        /\ frecs' = res.heap
        /\ brecs' = [brecs EXCEPT ![b] = res.bundle]
        /\ clock' = res.now
        /\ last' = Call("save_bundle", res.status, b, 0, brecs[b].path,
                        Join(base_path, <<brecs[b].bundle_name>>), FALSE, NoHash)
        /\ UNCHANGED callers

\* brecs[b].read_text_file_contents(ignore_errors)
DoReadText(b, ignore_errors) ==
    \E res \in {ReadTextFileContents(fs, frecs, brecs[b], ignore_errors)} :
        /\ last' = Call("read_text_file_contents", res.status, b, 0, NoPath, NoPath,
                        ignore_errors, IF res.status = "ok" THEN res.content ELSE <<>>)
        /\ UNCHANGED <<fs, frecs, brecs, clock, callers>>

\* Something outside the program removes the file at p.
RemoveFile(p) ==
    /\ IsFile(fs, p)
    /\ fs' = [q \in DOMAIN fs \ {p} |-> fs[q]]
    /\ last' = Call("remove", "ok", 0, 0, p, NoPath, FALSE, NoHash)
    /\ UNCHANGED <<frecs, brecs, clock, callers>>

NextStore ==
    \/ \E t \in {NoPath, <<"t">>}, cfg \in FewConfigs :
           /\ Len(brecs) < MaxBundles
           /\ ImportCall(<<"src">>, t, cfg, TRUE)
           /\ Len(frecs') <= MaxObjects
    \/ \E b \in 1..Len(brecs), t \in {<<"u">>, <<"src">>}, incl \in BOOLEAN :
           /\ Len(brecs) < MaxBundles
           /\ DoCopyBundle(b, t, incl)
           /\ Len(frecs') <= MaxObjects
    \/ \E b \in 1..Len(brecs) :
           DoSaveBundle(b, <<"store">>) /\ Len(frecs') <= MaxObjects
    \/ \E b \in 1..Len(brecs), ignore_errors \in BOOLEAN : DoReadText(b, ignore_errors)
    \/ WriteFile(<<"src", "a.txt">>, <<9, 1>>)
    \/ RemoveFile(<<"src", "b.csv">>)

SpecStore == Init /\ [][NextStore]_vars

\* A file and a bundle of one file are loaded, saved to the store and copied
\* while the source file is removed.
NextOnboard ==
    \/ /\ Len(brecs) < MaxBundles
       /\ ImportCall(<<"src">>, NoPath, [NoConfig EXCEPT !.include_files = List({".csv"})], TRUE)
       /\ Len(frecs') <= MaxOnboard
    \/ \E b \in 1..Len(brecs) :
           /\ Len(brecs) < MaxBundles
           /\ DoCopyBundle(b, <<"u">>, FALSE)
           /\ Len(frecs') <= MaxOnboard
    \/ \E b \in 1..Len(brecs) :
           DoSaveBundle(b, <<"store">>) /\ Len(frecs') <= MaxOnboard
    \/ Len(frecs) < MaxOnboard /\ DoLoadFile(<<"src", "a.txt">>, NoPath, FALSE)
    \/ \E i \in 1..Len(frecs) :
           Len(frecs) < MaxOnboard /\ DoCopyFile(i, <<"t", "u">>, FALSE)
    \/ \E i \in 1..Len(frecs) : DoSaveFile(i, <<"store">>)
    \/ RemoveFile(<<"src", "a.txt">>)

SpecOnboard == Init /\ [][NextOnboard]_vars

----------------------------------------------------------------------------
(* import_folder, called once on a source tree, with every configuration. *)

\* A deeper tree: excluded names at depth one and two, files below them.
DeepFs ==
    (<<"src">> :> DirNode)
    @@ (<<"src", "a.txt">> :> FileNode(<<1>>))
    @@ (<<"src", "b.csv">> :> FileNode(<<2>>))
    @@ (<<"src", ".git">> :> DirNode)
    @@ (<<"src", ".git", "x.txt">> :> FileNode(<<1>>))
    @@ (<<"src", ".git", "sub">> :> DirNode)
    @@ (<<"src", ".git", "sub", "y.txt">> :> FileNode(<<2>>))
    @@ (<<"src", "sub">> :> DirNode)
    @@ (<<"src", "sub", "y.txt">> :> FileNode(<<1>>))
    @@ (<<"src", "sub", "my.git">> :> DirNode)
    @@ (<<"src", "sub", "my.git", "x.txt">> :> FileNode(<<2>>))
    @@ (<<"ex">> :> DirNode)

\* The configurations import_folder is called with.
Configs ==
    {[include_files |-> inc, exclude_dirs |-> exd, exclude_files |-> exf] :
        inc \in {NoList, List({}), List({".txt"}), List({"txt", ".csv"})},
        exd \in {NoList, List({}), List({".git"}), List({"git", "sub"})},
        exf \in {NoList, List({".csv"}), List({"a.txt", ".csv"})}}

\* The sources: a folder, a folder whose own name is an excluded one, a file,
\* a path that does not exist, no path.
BundleSources == {<<"src">>, <<"src", ".git">>, <<"src", "a.txt">>, <<"nope">>, NoPath}
BundleTargets == {<<"t">>, <<"ex">>, <<"src", "a.txt">>}

InitImport ==
    /\ fs \in {InitFs, DeepFs}
    /\ frecs = <<>>
    /\ brecs = <<>>
    /\ clock = 1
    /\ last = Call("init", "ok", 0, 0, NoPath, NoPath, FALSE, NoHash)
    /\ callers = [c \in Callers |-> NoCaller]

ImportOnce(source, target, cfg, incl) ==
    /\ last.op = "init"
    /\ ImportCall(source, target, cfg, incl)

NextImport ==
    \E s \in BundleSources, t \in BundleTargets \cup {NoPath}, cfg \in Configs, incl \in BOOLEAN :
        ImportOnce(s, t, cfg, incl)

SpecImport == InitImport /\ [][NextImport]_vars

----------------------------------------------------------------------------
(* Properties of the exists-guard (SpecTarget). *)

\* C1: load_file, copy_file and import_folder with a target that exists fail,
\* and the call changes nothing: not the filesystem, so not the target, and no
\* record is created.
C1_ExistingTargetFails ==
    [][ ( /\ last'.op \in {"load_file", "copy_file", "import_folder"}
          /\ last'.target # NoPath
          /\ Exists(fs, last'.target) )
        => /\ last'.status # "ok"
           /\ fs' = fs
           /\ frecs' = frecs
           /\ brecs' = brecs ]_vars

\* import_folder fails on the directory an earlier load_file has created.
C1_Witness ==
    /\ last.op = "import_folder"
    /\ last.status = "ValueError"
    /\ last.source = <<"src">>
    /\ last.target = <<"t">>
    /\ IsDir(fs, <<"t">>)
    /\ \E i \in 1..Len(frecs) : IsPrefix(<<"t">>, frecs[i].path)

----------------------------------------------------------------------------
(* Properties of copy_file and file_hash (SpecFile, SpecSave). *)

CopiedOk == last.op = "copy_file" /\ last.status = "ok"

\* C3: after a successful r.copy_file(target, incl_orig_path) the copy has r's
\* orig_filename and import_time, r's orig_path if incl_orig_path and none
\* otherwise, its path is target and is not r's path; the call changes no
\* record that existed.
C3_CopyKeepsIdentity ==
    /\ [](CopiedOk =>
            LET r == frecs[last.self]
                cp == frecs[last.res]
            IN  /\ cp.orig_filename = r.orig_filename
                /\ cp.import_time = r.import_time
                /\ cp.orig_path = (IF last.incl THEN r.orig_path ELSE NoPath)
                /\ cp.path = last.target
                /\ cp.path # r.path)
    /\ [][ (last'.op = "copy_file" /\ last'.status = "ok")
           => \A i \in 1..Len(frecs) : frecs'[i] = frecs[i] ]_vars

\* A copy that takes over the original path of a record loaded earlier.
C3_Witness ==
    /\ CopiedOk
    /\ last.incl
    /\ frecs[last.self].orig_path = <<"src", "a.txt">>
    /\ frecs[last.res].orig_path = <<"src", "a.txt">>
    /\ frecs[last.res].path = <<"t", "u">>
    /\ frecs[last.res].import_time + 1 < clock

\* C4: once a record's file_hash is set, no call changes it or reads the file
\* again, so every access returns the same digest and the file is read at most
\* once, whatever is done to the record's path or to the bytes there.
C4_HashMemoized ==
    /\ [](\A i \in 1..Len(frecs) : frecs[i].reads <= 1)
    /\ [](last.op = "file_hash" => last.val = frecs[last.self].file_hash)
    /\ [][ \A i \in 1..Len(frecs) :
              Memoized(frecs[i]) =>
                  /\ frecs'[i].file_hash = frecs[i].file_hash
                  /\ frecs'[i].reads = frecs[i].reads ]_vars

\* A later access to a record that was saved to a new path, where the bytes
\* are not the ones that were hashed: it returns the memoized digest.
C4_Witness ==
    /\ last.op = "file_hash"
    /\ frecs[last.self].is_onboarded
    /\ frecs[last.self].reads = 1
    /\ last.val = frecs[last.self].file_hash
    /\ last.val # Sha3(fs[frecs[last.self].path].bytes)

\* C5: a copy of a hashed record holds the record's digest and never reads its
\* file; a copy of an unhashed record is unhashed, and an unhashed record gets
\* its digest only by its own first access, from the file at its own path,
\* which changes no other record.
C5_HashCarriedOrLazy ==
    /\ [](CopiedOk =>
            LET r == frecs[last.self]
                cp == frecs[last.res]
            IN  /\ cp.reads = 0
                /\ cp.file_hash = (IF Memoized(r) THEN r.file_hash ELSE NoHash))
    /\ [][ \A i \in 1..Len(frecs) :
              /\ (Memoized(frecs[i]) /\ frecs[i].reads = 0) => frecs'[i].reads = 0
              /\ (~Memoized(frecs[i]) /\ last'.op = "file_hash" /\ last'.self = i)
                 => /\ frecs'[i].file_hash = Sha3(fs[frecs[i].path].bytes)
                    /\ last'.val = frecs'[i].file_hash
                    /\ \A j \in 1..Len(frecs) : j # i => frecs'[j] = frecs[j]
              /\ (~Memoized(frecs[i]) /\ ~(last'.op = "file_hash" /\ last'.self = i))
                 => ~Memoized(frecs'[i]) ]_vars

\* The first access to the hash of a copy whose source is unhashed and has
\* other bytes by now: the digest is that of the copy's file.
C5_Witness ==
    /\ last.op = "file_hash"
    /\ Len(frecs) = 2
    /\ last.self = 2
    /\ frecs[2].import_time = frecs[1].import_time
    /\ frecs[2].reads = 1
    /\ ~Memoized(frecs[1])
    /\ frecs[2].file_hash = Sha3(fs[frecs[2].path].bytes)
    /\ frecs[2].file_hash # Sha3(fs[frecs[1].path].bytes)

----------------------------------------------------------------------------
(* Properties of import_folder's filtering (SpecImport). *)

ImportedOk == last.op = "import_folder" /\ last.status = "ok"
Imported == brecs[last.res]

\* The directories the walk of import_folder reaches from d.
RECURSIVE ReachedDirs(_, _, _)
ReachedDirs(f, d, cfg) ==
    {d} \cup UNION {ReachedDirs(f, c, cfg) : c \in WalkDirs(f, d, cfg)}
\* The regular files in those directories.
Candidates(f, source, cfg) ==
    {p \in DOMAIN f : IsFile(f, p) /\ Dirname(p) \in ReachedDirs(f, source, cfg)}

ExcludedBySuffix(name, cfg) == \E ext \in cfg.exclude_files.items : EndsWith(name, ext)
MatchesInclude(name, cfg) == \E ext \in cfg.include_files.items : EndsWith(name, ext)

\* C8, as stated: a filename is included iff it ends with no exclude_files
\* suffix and (no include_files list is given or it ends with an include_files
\* suffix).
C8_IncludedIffAsStated ==
    ImportedOk =>
        Keys(Imported) =
            {Relpath(p, last.source) : p \in
                {q \in Candidates(fs, last.source, last.cfg) :
                    /\ ~ExcludedBySuffix(Basename(q), last.cfg)
                    /\ (~last.cfg.include_files.given \/ MatchesInclude(Basename(q), last.cfg))}}

\* C8, amended: a filename is included iff it ends with no exclude_files suffix
\* and (no include_files list is given, or the list is empty, or it ends with
\* an include_files suffix); a name matching both kinds of suffix is excluded.
C8_IncludedIff ==
    ImportedOk =>
        Keys(Imported) =
            {Relpath(p, last.source) : p \in
                {q \in Candidates(fs, last.source, last.cfg) :
                    /\ ~ExcludedBySuffix(Basename(q), last.cfg)
                    /\ \/ ~last.cfg.include_files.given
                       \/ last.cfg.include_files.items = {}
                       \/ MatchesInclude(Basename(q), last.cfg)}}

\* An import where a.txt matches an include and an exclude suffix and is left
\* out, while another file is taken.
C8_Witness ==
    /\ ImportedOk
    /\ IsFile(fs, <<"src", "a.txt">>)
    /\ MatchesInclude("a.txt", last.cfg)
    /\ ExcludedBySuffix("a.txt", last.cfg)
    /\ <<"a.txt">> \notin Keys(Imported)
    /\ Keys(Imported) # {}

\* The directory components of a key: all but the file name.
DirParts(k) == {k[i] : i \in 1..(Len(k) - 1)}

\* C9: no file below a directory whose name equals an exclude_dirs entry is in
\* included_files, at any depth; the tree a.txt, b.csv, .git/x.txt,
\* my.git/y.txt with exclude_dirs = [".git"] gives exactly the keys outside
\* .git, and number_of_files counts them.
C9_PrunedTopDown ==
    ImportedOk =>
        /\ \A k \in Keys(Imported) : DirParts(k) \cap last.cfg.exclude_dirs.items = {}
        /\ ( /\ last.source = <<"src">>
             /\ Exists(fs, <<"src", "my.git">>)
             /\ last.cfg = [NoConfig EXCEPT !.exclude_dirs = List({".git"})] )
           => /\ Keys(Imported) = {<<"a.txt">>, <<"b.csv">>, <<"my.git", "y.txt">>}
              /\ Imported.number_of_files = 3

\* An import that prunes .git although the files below it match include_files.
C9_Witness ==
    /\ ImportedOk
    /\ last.cfg.exclude_dirs = List({".git"})
    /\ last.cfg.include_files = List({".txt"})
    /\ IsFile(fs, <<"src", ".git", "sub", "y.txt">>)
    /\ Keys(Imported) = {<<"a.txt">>, <<"sub", "y.txt">>, <<"sub", "my.git", "x.txt">>}

\* C10: no file below a directory whose name ends with an exclude_dirs entry is
\* in included_files.
C10_ExcludedBySuffix ==
    ImportedOk =>
        \A k \in Keys(Imported) : \A d \in DirParts(k) :
            \A e \in last.cfg.exclude_dirs.items : ~EndsWith(d, e)

----------------------------------------------------------------------------
(* Properties of copy_bundle and file_bundle_hash (SpecBundle). *)

BundleCopiedOk == last.op = "copy_bundle" /\ last.status = "ok"
BundleHashed(b) == b.file_bundle_hash # NoHash

\* The KiaraFile objects of a bundle.
FilesOf(b) == {b.included_files[i].fid : i \in 1..Len(b.included_files)}
\* The (relative path, file content hash) pairs a bundle holds.
HashPairs(b) == {<<k, frecs[FileOf(b, k)].file_hash>> : k \in Keys(b)}
\* The keys of a bundle in the order they were inserted.
KeySeq(b) == [i \in 1..Len(b.included_files) |-> b.included_files[i].key]

\* C2: copy_bundle to a target_path that exists fails and leaves the
\* filesystem, so the target directory, as it was.
C2_ExistingTargetFails ==
    [][ (last'.op = "copy_bundle" /\ Exists(fs, last'.target))
        => (last'.status # "ok" /\ fs' = fs) ]_vars

\* C6: file_bundle_hash visits the keys in ascending order of their strings,
\* and two hashed bundles that hold the same (relative path, file hash) pairs
\* have the same file_bundle_hash, in whatever order the keys were inserted.
C6_HashOrderIndependent ==
    /\ \A b \in 1..Len(brecs) :
          LET order == HashOrder(brecs[b])
          IN  /\ {order[i] : i \in 1..Len(order)} = Keys(brecs[b])
              /\ \A i, j \in 1..Len(order) :
                    i < j => StrLess(PathStr(order[i]), PathStr(order[j]))
    /\ \A b1, b2 \in 1..Len(brecs) :
          ( /\ BundleHashed(brecs[b1])
            /\ BundleHashed(brecs[b2])
            /\ HashPairs(brecs[b1]) = HashPairs(brecs[b2]) )
          => brecs[b1].file_bundle_hash = brecs[b2].file_bundle_hash

\* Two imports of the same folder whose walks listed the files in different
\* orders, both hashed by their own access, with the same hash.
C6_Witness ==
    /\ last.op = "file_bundle_hash"
    /\ Len(brecs) = 2
    /\ BundleHashed(brecs[1])
    /\ BundleHashed(brecs[2])
    /\ KeySeq(brecs[1]) # KeySeq(brecs[2])
    /\ Len(brecs[1].included_files) >= 3
    /\ HashPairs(brecs[1]) = HashPairs(brecs[2])
    /\ \A i \in FilesOf(brecs[1]) \cup FilesOf(brecs[2]) : frecs[i].reads = 1
    /\ brecs[1].file_bundle_hash = brecs[2].file_bundle_hash

\* C7: a copy of a bundle whose file_bundle_hash is computed holds that hash
\* and none of its files has been read; an access to a hash that is held
\* returns it and changes no file record, so reads no file.
C7_CopyCarriesBundleHash ==
    /\ []( (BundleCopiedOk /\ BundleHashed(brecs[last.self]))
           => /\ brecs[last.res].file_bundle_hash = brecs[last.self].file_bundle_hash
              /\ \A i \in FilesOf(brecs[last.res]) : frecs[i].reads = 0 )
    /\ [][ \A b \in 1..Len(brecs) :
              ( /\ BundleHashed(brecs[b])
                /\ last'.op = "file_bundle_hash"
                /\ last'.self = b )
              => /\ last'.val = brecs[b].file_bundle_hash
                 /\ frecs' = frecs
                 /\ brecs' = brecs ]_vars

\* The access to the hash of a copy made of a hashed bundle: it is the hash of
\* the original and no file of the copy has been read.
C7_Witness ==
    /\ last.op = "file_bundle_hash"
    /\ last.self = 2
    /\ brecs[2].path = <<"u">>
    /\ brecs[1].path = <<"src">>
    /\ Len(brecs[2].included_files) >= 3
    /\ last.val = brecs[1].file_bundle_hash
    /\ \A i \in FilesOf(brecs[2]) : frecs[i].reads = 0
    /\ \A i \in FilesOf(brecs[1]) : frecs[i].reads = 1

\* C13: copy_bundle to the bundle's own path raises the exception of the
\* first test of copy_bundle, before any file is looked at: the filesystem,
\* the file records and the bundle records (path, included_files, memoized
\* hash) are as they were.
C13_SamePathFailsFirst ==
    [][ (last'.op = "copy_bundle" /\ last'.target = brecs[last'.self].path)
        => /\ last'.status = "Exception"
           /\ fs' = fs
           /\ frecs' = frecs
           /\ brecs' = brecs ]_vars

\* A hashed bundle, imported in place, is copied to the path it has.
C13_Witness ==
    /\ last.op = "copy_bundle"
    /\ last.status = "Exception"
    /\ last.target = <<"src">>
    /\ brecs[last.self].path = <<"src">>
    /\ BundleHashed(brecs[last.self])
    /\ Len(brecs[last.self].included_files) >= 3

----------------------------------------------------------------------------
(* Properties of the bundle's fields and of reading it (SpecStore). *)

\* C11: number_of_files is the number of entries of included_files, for every
\* bundle record, after every import_folder, copy_bundle and save_value.
C11_CountMatches ==
    \A b \in 1..Len(brecs) :
        brecs[b].number_of_files = Len(brecs[b].included_files)

\* A bundle of two files after save_value has replaced its included_files by
\* the records of the copy in the store.
C11_Witness ==
    /\ last.op = "save_bundle"
    /\ last.status = "ok"
    /\ brecs[last.self].is_onboarded
    /\ brecs[last.self].number_of_files = 2
    /\ \A i \in FilesOf(brecs[last.self]) :
          IsPrefix(<<"store">>, frecs[i].path) /\ frecs[i].is_onboarded

\* C12: the size of a bundle returned by import_folder or copy_bundle is the
\* sum of the sizes of its included file records.
C12_SizeIsSum ==
    (last.op \in {"import_folder", "copy_bundle"} /\ last.status = "ok")
    => brecs[last.res].size = SumSizes(frecs, brecs[last.res].included_files)

\* The entries read_text_file_contents returns when every file that cannot be
\* opened or decoded is left out.
ReadableEntries(b) ==
    {[key |-> Relpath(frecs[i].path, b.path), content |-> fs[frecs[i].path].bytes] :
        i \in {j \in FilesOf(b) : IsFile(fs, frecs[j].path) /\ Utf8Ok(fs[frecs[j].path].bytes)}}

\* C14: read_text_file_contents(ignore_errors=True) does not fail, and returns
\* the content of every included file but the ones that cannot be opened or
\* decoded.
C14_IgnoreErrorsNeverFails ==
    (last.op = "read_text_file_contents" /\ last.incl)
    => /\ last.status = "ok"
       /\ {last.val[i] : i \in 1..Len(last.val)} = ReadableEntries(brecs[last.self])

----------------------------------------------------------------------------
(* Properties of is_onboarded and of the save modules (SpecOnboard). *)

\* C15: a record returned by load_file, copy_file, import_folder or copy_bundle
\* is not onboarded, whatever it is a copy of, and a record becomes onboarded
\* only by a successful save_value of the file or bundle save module.
C15_NeverOnboardsItself ==
    /\ []( (last.op \in {"load_file", "copy_file"} /\ last.status = "ok")
           => ~frecs[last.res].is_onboarded )
    /\ []( (last.op \in {"import_folder", "copy_bundle"} /\ last.status = "ok")
           => /\ ~brecs[last.res].is_onboarded
              /\ \A i \in FilesOf(brecs[last.res]) : ~frecs[i].is_onboarded )
    /\ [][ /\ \A i \in 1..Len(frecs') :
                ( /\ frecs'[i].is_onboarded
                  /\ (i > Len(frecs) \/ ~frecs[i].is_onboarded) )
                => (last'.op \in {"save_file", "save_bundle"} /\ last'.status = "ok")
           /\ \A b \in 1..Len(brecs') :
                ( /\ brecs'[b].is_onboarded
                  /\ (b > Len(brecs) \/ ~brecs[b].is_onboarded) )
                => (last'.op = "save_bundle" /\ last'.status = "ok" /\ last'.self = b) ]_vars

\* The copy of a bundle that was saved to the store: the bundle and its file
\* are onboarded, the copy and its file are not.
C15_Witness ==
    /\ last.op = "copy_bundle"
    /\ last.status = "ok"
    /\ brecs[last.self].is_onboarded
    /\ brecs[last.self].number_of_files = 1
    /\ \A i \in FilesOf(brecs[last.self]) : frecs[i].is_onboarded
    /\ ~brecs[last.res].is_onboarded
    /\ \A i \in FilesOf(brecs[last.res]) : ~frecs[i].is_onboarded

\* C16: a save_value that succeeds leaves the record onboarded at the target,
\* where the copy is on disk; a save_value that fails leaves every file and
\* bundle record as it was.
C16_MarkedAfterCopy ==
    [][ /\ (last'.op \in {"save_file", "save_bundle"} /\ last'.status # "ok")
           => (frecs' = frecs /\ brecs' = brecs)
        /\ (last'.op = "save_file" /\ last'.status = "ok")
           => /\ frecs'[last'.self].is_onboarded
              /\ frecs'[last'.self].path = last'.target
              /\ IsFile(fs', last'.target)
              /\ ~Exists(fs, last'.target)
              /\ fs'[last'.target].bytes = fs[frecs[last'.self].path].bytes
        /\ (last'.op = "save_bundle" /\ last'.status = "ok")
           => /\ brecs'[last'.self].is_onboarded
              /\ brecs'[last'.self].path = last'.target
              /\ Keys(brecs'[last'.self]) = Keys(brecs[last'.self])
              /\ \A k \in Keys(brecs[last'.self]) :
                    LET old == frecs[FileOf(brecs[last'.self], k)]
                        new == frecs'[FileOf(brecs'[last'.self], k)]
                    IN  /\ new.path = Join(last'.target, k)
                        /\ ~Exists(fs, new.path)
                        /\ IsFile(fs', new.path)
                        /\ fs'[new.path].bytes = fs[old.path].bytes ]_vars

\* A save_value whose copy_file fails, the file of the record being gone: the
\* record is not onboarded and has the path it had.
C16_Witness ==
    /\ last.op = "save_file"
    /\ last.status = "ValueError"
    /\ ~Exists(fs, last.target)
    /\ ~frecs[last.self].is_onboarded
    /\ frecs[last.self].path = <<"src", "a.txt">>
    /\ ~Exists(fs, <<"src", "a.txt">>)

----------------------------------------------------------------------------
(* Properties of the fields load_file and copy_file set (SpecFile). *)

LoadedOk == last.op = "load_file" /\ last.status = "ok"

\* C17, as stated: load_file without a target gives a record whose path is its
\* orig_path and which is not onboarded.
C17_PathIsOrigPath ==
    (LoadedOk /\ last.target = NoPath)
    => /\ frecs[last.res].path = frecs[last.res].orig_path
       /\ ~frecs[last.res].is_onboarded

\* C17, amended: load_file without a target gives a record whose path is the
\* source path and which is not onboarded, and writes nothing; orig_path is
\* that path when incl_orig_path is true and none otherwise.
C17_PathIsSource ==
    /\ []( (LoadedOk /\ last.target = NoPath)
           => /\ frecs[last.res].path = last.source
              /\ frecs[last.res].orig_path = (IF last.incl THEN last.source ELSE NoPath)
              /\ ~frecs[last.res].is_onboarded )
    /\ [][ (last'.op = "load_file" /\ last'.target = NoPath) => fs' = fs ]_vars

\* A file loaded in place with its original path recorded.
C17_Witness ==
    /\ LoadedOk
    /\ last.target = NoPath
    /\ last.incl
    /\ frecs[last.res].path = <<"src", "a.txt">>
    /\ frecs[last.res].orig_path = <<"src", "a.txt">>

\* C18: load_file with no source, a source that does not exist, a source that
\* is not a regular file or a target that exists raises ValueError, and the
\* call leaves the filesystem and the records as they were.
C18_PreconditionsFailAlike ==
    [][ ( /\ last'.op = "load_file"
          /\ \/ last'.source = NoPath
             \/ ~Exists(fs, last'.source)
             \/ ~IsFile(fs, last'.source)
             \/ (last'.target # NoPath /\ Exists(fs, last'.target)) )
        => /\ last'.status = "ValueError"
           /\ fs' = fs
           /\ frecs' = frecs ]_vars

\* load_file of a directory to a target below a directory that does not
\* exist: the call fails and the directory is not made.
C18_Witness ==
    /\ last.op = "load_file"
    /\ last.status = "ValueError"
    /\ IsDir(fs, last.source)
    /\ last.target = <<"t", "u">>
    /\ ~Exists(fs, <<"t">>)

\* C19: a record made by load_file has file_name equal to orig_filename, and a
\* copy has the file_name of the record it was copied from.
C19_FileNameKept ==
    /\ LoadedOk => frecs[last.res].file_name = frecs[last.res].orig_filename
    /\ CopiedOk => frecs[last.res].file_name = frecs[last.self].file_name

\* C20: a copy has the size of the record it was copied from, which is the
\* number of bytes of the copied file.
C20_SizeKept ==
    CopiedOk =>
        /\ frecs[last.res].size = frecs[last.self].size
        /\ frecs[last.res].size = Len(fs[frecs[last.res].path].bytes)

----------------------------------------------------------------------------
(* file_hash, called by several callers at the same time.  The property     *)
(* getter holds no lock: between two of its statements another caller may   *)
(* run.                                                                     *)

Step(c, pc) == [callers EXCEPT ![c].pc = pc]

\* if self._file_hash is not None: return self._file_hash
HashCheck(c, i) ==
    /\ callers[c].pc = "idle"
    /\ callers' = [callers EXCEPT ![c] =
           IF Memoized(frecs[i])
           THEN [NoCaller EXCEPT !.pc = "done", !.op = "file_hash", !.self = i,
                                 !.status = "ok", !.val = frecs[i].file_hash]
           ELSE [NoCaller EXCEPT !.pc = "digest", !.op = "file_hash", !.self = i]]
    /\ UNCHANGED <<fs, frecs, brecs, clock, last>>

\* The file at self.path is opened and digested, into a local of the caller.
HashDigest(c) ==
    /\ callers[c].pc = "digest"
    /\ LET i == callers[c].self
       IN  IF IsFile(fs, frecs[i].path)
           THEN /\ callers' = [callers EXCEPT ![c].pc = "store",
                                              ![c].digest = Sha3(fs[frecs[i].path].bytes)]
                /\ frecs' = [frecs EXCEPT ![i].reads = @ + 1]
           ELSE /\ callers' = [callers EXCEPT ![c].pc = "done", ![c].status = "OSError"]
                /\ frecs' = frecs
    /\ UNCHANGED <<fs, brecs, clock, last>>

\* self._file_hash = sha256_hash.hexdigest()
HashStore(c) ==
    /\ callers[c].pc = "store"
    /\ frecs' = [frecs EXCEPT ![callers[c].self].file_hash = callers[c].digest]
    /\ callers' = Step(c, "return")
    /\ UNCHANGED <<fs, brecs, clock, last>>

\* return self._file_hash
HashReturn(c) ==
    /\ callers[c].pc = "return"
    /\ callers' = [callers EXCEPT ![c].pc = "done", ![c].status = "ok",
                                  ![c].val = frecs[callers[c].self].file_hash]
    /\ UNCHANGED <<fs, frecs, brecs, clock, last>>

\* Records are loaded and each caller asks once for the hash of one of them,
\* while the file is rewritten.
NextHashRace ==
    \/ \E incl \in BOOLEAN :
           Len(frecs) < MaxRaced /\ DoLoadFile(<<"src", "a.txt">>, NoPath, incl)
    \/ \E c \in Callers, i \in 1..Len(frecs) : HashCheck(c, i)
    \/ \E c \in Callers : HashDigest(c)
    \/ \E c \in Callers : HashStore(c)
    \/ \E c \in Callers : HashReturn(c)
    \/ WriteFile(<<"src", "a.txt">>, <<9, 1>>)

SpecHashRace == Init /\ [][NextHashRace]_vars

\* The callers that have written the memoization cell of record i.
Writers(i) ==
    {c \in Callers : /\ callers[c].op = "file_hash"
                     /\ callers[c].self = i
                     /\ callers[c].pc \in {"return", "done"}
                     /\ callers[c].digest # NoHash}

\* C21: under every interleaving of the callers of file_hash on one record,
\* the memoization cell is written at most once, the file is hashed at most
\* once and all callers that have returned hold the same value.
C21_SingleWriterWins ==
    \A i \in 1..Len(frecs) :
        /\ Cardinality(Writers(i)) <= 1
        /\ frecs[i].reads <= 1
        /\ \A c, d \in Callers :
               ( /\ callers[c].pc = "done" /\ callers[c].status = "ok"
                 /\ callers[d].pc = "done" /\ callers[d].status = "ok"
                 /\ callers[c].self = i /\ callers[d].self = i )
               => callers[c].val = callers[d].val

----------------------------------------------------------------------------
(* Properties of the mime type (SpecFile). *)

\* C22: the record load_file makes (for copy_file too) has the mime type the
\* extension of its path stands for if it stands for one; otherwise the type
\* the content at its path, the target or else the source, is recognised as;
\* otherwise application/octet-stream.  The content is not asked when the
\* extension is known.
C22_MimeOrder ==
    [][ ( /\ last'.op \in {"load_file", "copy_file"}
          /\ last'.status = "ok" )
        => LET fm == frecs'[last'.res]
               by_name == GuessType(fm.path)
               by_content == FiletypeGuess(fs', fm.path)
           IN  /\ fm.path = IF last'.target # NoPath THEN last'.target ELSE last'.source
               /\ by_name # NoMime => fm.mime_type = by_name
               /\ (by_name = NoMime /\ by_content # NoMime) => fm.mime_type = by_content
               /\ (by_name = NoMime /\ by_content = NoMime)
                      => fm.mime_type = "application/octet-stream" ]_vars

\* A file whose content is recognised as an image is loaded to a name without
\* an extension and then in place, under its name with a known extension: the
\* first record has the type of the content, the second that of the extension.
C22_Witness ==
    /\ last.op = "load_file"
    /\ last.status = "ok"
    /\ last.source = <<"src", "a.txt">>
    /\ last.target = NoPath
    /\ last.res = 2
    /\ frecs[1].path = <<"t", "u">>
    /\ frecs[1].mime_type = "image/png"
    /\ FiletypeGuess(fs, <<"src", "a.txt">>) = "image/png"
    /\ frecs[2].mime_type = "text/plain"

----------------------------------------------------------------------------
(* MergeTableModule.process.  The sources mapping is the dict in insertion  *)
(* order: a sequence of [key, kind, names, rows].  A pa.Table has the names *)
(* of its columns and its num_rows, a pa.Array its length; any other value  *)
(* is of kind "other".  A column is named by where it comes from.           *)

NoRows == -1

Table(key, names, rows) == [key |-> key, kind |-> "table", names |-> names, rows |-> rows]
Array(key, rows) == [key |-> key, kind |-> "array", names |-> <<>>, rows |-> rows]
Other(key) == [key |-> key, kind |-> "other", names |-> <<>>, rows |-> 0]

\* The first loop: arrays, column_names and len_dict, until a source of an
\* invalid type is met.
RECURSIVE Collect(_, _)
Collect(acc, sources) ==
    IF sources = <<>> \/ acc.status # "ok" THEN acc
    ELSE
        LET item == Head(sources)
        IN  IF item.kind = "table"
            THEN Collect([acc EXCEPT
                             !.arrays = @ \o [i \in 1..Len(item.names) |->
                                                 [of |-> item.key, column |-> item.names[i]]],
                             !.column_names = @ \o item.names,
                             !.len_dict = Append(@, item.rows)],
                         Tail(sources))
            ELSE IF item.kind = "array"
            THEN Collect([acc EXCEPT
                             !.arrays = Append(@, [of |-> item.key, column |-> ""]),
                             !.column_names = Append(@, item.key),
                             !.len_dict = Append(@, item.rows)],
                         Tail(sources))
            ELSE [acc EXCEPT !.status = "invalid type"]

\* The second loop: all_rows after len_dict was gone through, NoRows for None.
RECURSIVE AllRows(_, _)
AllRows(all_rows, lens) ==
    IF lens = <<>> THEN all_rows
    ELSE IF all_rows = NoRows THEN AllRows(Head(lens), Tail(lens))
    ELSE IF all_rows # Head(lens) THEN NoRows
    ELSE AllRows(all_rows, Tail(lens))

NoTable == [names |-> <<>>, arrays |-> <<>>, rows |-> NoRows]

\* MergeTableModule.process: the outcome and the value of the output table.
Merge(sources) ==
    LET got == Collect([status |-> "ok", arrays |-> <<>>, column_names |-> <<>>,
                        len_dict |-> <<>>], sources)
        all_rows == AllRows(NoRows, got.len_dict)
    IN  IF got.status # "ok" THEN [status |-> got.status, table |-> NoTable]
        ELSE IF all_rows = NoRows THEN [status |-> "different lengths", table |-> NoTable]
        ELSE [status |-> "ok",
              table |-> [names |-> got.column_names, arrays |-> got.arrays, rows |-> all_rows]]

\* The values a source may have, under key.
SourceValues(key) ==
    {Table(key, <<"a">>, 1), Table(key, <<"a", "b">>, 2), Table(key, <<"b">>, 0),
     Array(key, 1), Array(key, 2), Other(key)}

\* The mappings process is called with: up to MaxSources entries, no key twice.
Mappings ==
    UNION {{m \in [1..n -> UNION {SourceValues(k) : k \in {"x", "y", "z"}}] :
               \A i, j \in 1..n : m[i].key = m[j].key => i = j} : n \in 0..MaxSources}

DoMerge(sources) ==
    /\ last.op = "init"
    /\ \E res \in {Merge(sources)} :
           last' = Call("merge", res.status, 0, 0, sources, NoPath, FALSE, res.table)
    /\ UNCHANGED <<fs, frecs, brecs, clock, callers>>

NextMerge == \E sources \in Mappings : DoMerge(sources)

SpecMerge == Init /\ [][NextMerge]_vars

\* The columns of a source, in its own order.
ColumnsOf(item) ==
    IF item.kind = "table"
    THEN [i \in 1..Len(item.names) |-> [of |-> item.key, column |-> item.names[i]]]
    ELSE <<[of |-> item.key, column |-> ""]>>

RECURSIVE AllColumns(_)
AllColumns(sources) ==
    IF sources = <<>> THEN <<>> ELSE ColumnsOf(Head(sources)) \o AllColumns(Tail(sources))

RowsDiffer(sources) ==
    \E i, j \in 1..Len(sources) : sources[i].rows # sources[j].rows

\* C23: for a mapping of tables and arrays, process raises the exception that
\* the sources have different lengths exactly when two sources differ in
\* their number of rows; otherwise it succeeds and the output table holds all
\* columns of the sources, in the order of the sources.
C23_RaisesIffLengthsDiffer ==
    ( /\ last.op = "merge"
      /\ \A i \in 1..Len(last.source) : last.source[i].kind # "other" )
    => /\ last.status = "different lengths" <=> RowsDiffer(last.source)
       /\ ~RowsDiffer(last.source)
              => /\ last.status = "ok"
                 /\ last.val.arrays = AllColumns(last.source)

----------------------------------------------------------------------------
(* load_file and copy_file, called by several callers at the same time.     *)
(* Between the test of the target and the copy to it another caller may     *)
(* run.                                                                     *)

\* The start of load_file, up to the test of the target: the checks of the
\* source, os.stat, os.path.exists(target).  For copy_file, i is the record
\* copied and source its path.
LoadCheck(c, op, i, source, target, incl) ==
    /\ callers[c].pc = "idle"
    /\ callers' = [callers EXCEPT ![c] =
           IF source = NoPath \/ ~IsFile(fs, source) \/ TargetTaken(fs, target)
           THEN [NoCaller EXCEPT !.pc = "done", !.op = op, !.self = i, !.source = source,
                                 !.target = target, !.incl = incl, !.status = "ValueError"]
           ELSE [NoCaller EXCEPT !.pc = IF target # NoPath THEN "makedirs" ELSE "finish",
                                 !.op = op, !.self = i, !.source = source,
                                 !.target = target, !.incl = incl,
                                 !.size = Len(fs[source].bytes)]]
    /\ UNCHANGED <<fs, frecs, brecs, clock, last>>

\* os.makedirs(os.path.dirname(target), exist_ok=True)
LoadMakeDirs(c) ==
    /\ callers[c].pc = "makedirs"
    /\ IF CanMakeDirs(fs, Dirname(callers[c].target))
       THEN /\ fs' = MakeDirs(fs, Dirname(callers[c].target))
            /\ callers' = Step(c, "copy")
       ELSE /\ fs' = fs
            /\ callers' = [callers EXCEPT ![c].pc = "done", ![c].status = "OSError"]
    /\ UNCHANGED <<frecs, brecs, clock, last>>

\* shutil.copy2(source, target): the bytes of the source are written to the
\* target, in place of what a file there held.
LoadCopy(c) ==
    /\ callers[c].pc = "copy"
    /\ IF IsFile(fs, callers[c].source) /\ ~IsDir(fs, callers[c].target)
       THEN /\ fs' = Copy2(fs, callers[c].source, callers[c].target)
            /\ callers' = [callers EXCEPT ![c].pc = "finish",
                                          ![c].val = fs[callers[c].source].bytes]
       ELSE /\ fs' = fs
            /\ callers' = [callers EXCEPT ![c].pc = "done", ![c].status = "OSError"]
    /\ UNCHANGED <<frecs, brecs, clock, last>>

\* The end of load_file and, for copy_file, the overlay on what it returned.
LoadFinish(c) ==
    /\ callers[c].pc = "finish"
    /\ LET me == callers[c]
           fm == NewFile(fs, me.source, LoadTarget(me.source, me.target), me.size,
                         IF me.op = "load_file" THEN me.incl ELSE FALSE, clock)
       IN  frecs' = Append(frecs, IF me.op = "copy_file"
                                  THEN CopyOverlay(frecs[me.self], fm, me.incl)
                                  ELSE fm)
    /\ clock' = clock + 1
    /\ callers' = [callers EXCEPT ![c].pc = "done", ![c].status = "ok"]
    /\ UNCHANGED <<fs, brecs, last>>

\* The target the callers race for, absent at first.
RaceTarget == <<"t", "u">>

\* A record is loaded in place; then each caller makes one call, load_file of
\* another file or copy_file of the record, to the same target.
NextLoadRace ==
    \/ Len(frecs) < MaxRaced /\ DoLoadFile(<<"src", "a.txt">>, NoPath, FALSE)
    \/ \E c \in Callers, incl \in BOOLEAN :
           LoadCheck(c, "load_file", 0, <<"src", "b.csv">>, RaceTarget, incl)
    \/ \E c \in Callers, i \in 1..Len(frecs), incl \in BOOLEAN :
           LoadCheck(c, "copy_file", i, frecs[i].path, RaceTarget, incl)
    \/ \E c \in Callers : LoadMakeDirs(c)
    \/ \E c \in Callers : LoadCopy(c)
    \/ \E c \in Callers : LoadFinish(c)

SpecLoadRace == Init /\ [][NextLoadRace]_vars

\* The callers that have copied their source to target.
Copiers(target) ==
    {c \in Callers : /\ callers[c].target = target
                     /\ callers[c].pc \in {"finish", "done"}
                     /\ callers[c].status \in {"", "ok"}}

\* C24: under every interleaving of the callers of load_file and copy_file
\* with one target that was absent, at most one caller copies to the target,
\* every other caller fails without copying, and the file once written to
\* the target is not written again.
C24_NoOverwriteRace ==
    /\ [](Cardinality(Copiers(RaceTarget)) <= 1)
    /\ [][IsFile(fs, RaceTarget) => fs'[RaceTarget] = fs[RaceTarget]]_vars

----------------------------------------------------------------------------
(* A bundle is saved to the store and loaded from there again.              *)

\* LoadFileBundleModule.process with the inputs base_path and rel_path: the
\* optional inputs included_files and excluded_dirs are None, exclude_files
\* is not passed and has its default.
LoadBundle(f, heap, base_path, rel_path, now, walk) ==
    ImportFolder(f, heap, Join(base_path, <<rel_path>>), NoPath, DefaultConfig, FALSE, now, walk)

\* The module is run with the inputs of the load_config that save_value of
\* brecs[b] to base_path returned.
DoLoadBundle(b, base_path) ==
    /\ brecs[b].is_onboarded
    /\ brecs[b].path = Join(base_path, <<brecs[b].bundle_name>>)
    /\ \E walk \in (IF IsDir(fs, brecs[b].path)
                     THEN Walks(fs, brecs[b].path, DefaultConfig) ELSE {<<>>}) :
           \E res \in {LoadBundle(fs, frecs, base_path, brecs[b].bundle_name, clock, walk)} :
               /\ fs' = res.fs
               /\ frecs' = res.heap
               /\ brecs' = IF res.status = "ok" THEN Append(brecs, res.bundle) ELSE brecs
               /\ clock' = IF res.status = "ok" THEN res.now ELSE clock
               /\ last' = Call("load_bundle", res.status, b,
                               IF res.status = "ok" THEN Len(brecs) + 1 ELSE 0,
                               brecs[b].path, NoPath, FALSE, NoHash)
               /\ UNCHANGED callers

\* A folder with a file the default of exclude_files leaves out.
RoundFs ==
    (<<"src">> :> DirNode)
    @@ (<<"src", "a.txt">> :> FileNode(<<1>>))
    @@ (<<"src", ".DS_Store">> :> FileNode(<<2>>))

\* The configurations the folder is imported with: the defaults, no
\* exclusion at all, an include list.
RoundConfigs ==
    {DefaultConfig, NoConfig, [NoConfig EXCEPT !.include_files = List({".txt"})]}

InitRound ==
    /\ fs = RoundFs
    /\ frecs = <<>>
    /\ brecs = <<>>
    /\ clock = 1
    /\ last = Call("init", "ok", 0, 0, NoPath, NoPath, FALSE, NoHash)
    /\ callers = [c \in Callers |-> NoCaller]

NextRound ==
    \/ \E cfg \in RoundConfigs, t \in {NoPath, <<"t">>} :
           Len(brecs) < MaxBundles /\ ImportCall(<<"src">>, t, cfg, FALSE)
    \/ \E b \in 1..Len(brecs) : DoSaveBundle(b, <<"store">>)
    \/ \E b \in 1..Len(brecs) : Len(brecs) <= MaxBundles /\ DoLoadBundle(b, <<"store">>)
    \/ \E b \in 1..Len(brecs) : DoBundleHash(b)

SpecRound == InitRound /\ [][NextRound]_vars

\* C25: the bundle loaded with the load_config of a saved bundle has the
\* saved bundle's path, its set of keys and its file_bundle_hash.
C25_RoundTrip ==
    (last.op = "load_bundle" /\ last.status = "ok")
    => LET saved == brecs[last.self]
           loaded == brecs[last.res]
       IN  /\ loaded.path = saved.path
           /\ Keys(loaded) = Keys(saved)
           /\ HashedBundle(fs, frecs, loaded).bundle.file_bundle_hash
                  = HashedBundle(fs, frecs, saved).bundle.file_bundle_hash

----------------------------------------------------------------------------
(* Properties of the keys of included_files (SpecStore). *)

\* get_relative_path(f) for the file under the i-th key of bundle b.
RelativePath(b, i) == Relpath(frecs[b.included_files[i].fid].path, b.path)

\* C26: in every bundle that import_folder, with or without a target, or
\* copy_bundle has made, and after save_value, each included file is stored
\* under the key get_relative_path gives for it; so the keys of what
\* read_text_file_contents returns are keys of included_files.
C26_KeyIsRelativePath ==
    /\ \A b \in 1..Len(brecs) :
           \A i \in 1..Len(brecs[b].included_files) :
               RelativePath(brecs[b], i) = brecs[b].included_files[i].key
    /\ (last.op = "read_text_file_contents" /\ last.status = "ok")
           => {last.val[i].key : i \in 1..Len(last.val)} \subseteq Keys(brecs[last.self])

\* The contents of a bundle that was imported to a target are read: a file
\* of the folder and one of a folder below it, each under its key.
C26_Witness ==
    /\ last.op = "read_text_file_contents"
    /\ last.status = "ok"
    /\ brecs[last.self].path = <<"t">>
    /\ {last.val[i].key : i \in 1..Len(last.val)} = {<<"a.txt">>, <<"my.git", "y.txt">>}
    /\ Keys(brecs[last.self]) = {<<"a.txt">>, <<"my.git", "y.txt">>}

----------------------------------------------------------------------------
(* Records are hashed and saved to the store, more than once. *)

NextResave ==
    \/ /\ Len(brecs) < MaxSaved
       /\ ImportCall(<<"src">>, NoPath, [NoConfig EXCEPT !.include_files = List({".csv"})], FALSE)
       /\ Len(frecs') <= MaxOnboard
    \/ \E b \in 1..Len(brecs) :
           DoSaveBundle(b, <<"store">>) /\ Len(frecs') <= MaxOnboard
    \/ \E b \in 1..Len(brecs) : DoBundleHash(b)
    \/ Len(frecs) < MaxSaved /\ DoLoadFile(<<"src", "a.txt">>, NoPath, FALSE)
    \/ \E i \in 1..Len(frecs) : DoSaveFile(i, <<"store">>)
    \/ \E i \in 1..Len(frecs) : DoFileHash(i)

SpecResave == Init /\ [][NextResave]_vars

\* C27: save_value of a file record or of a bundle that was saved to the same
\* base_path before fails, the file because its target exists, the bundle
\* because the target is its path, and changes nothing: no record, no
\* memoized hash, no file; the record stays onboarded.  The store is the only
\* base_path here: a bundle that is onboarded was saved there, and so was a
\* file record that is onboarded and has the target as its path.
C27_SecondSaveFails ==
    [][ /\ ( /\ last'.op = "save_file"
             /\ frecs[last'.self].is_onboarded
             /\ frecs[last'.self].path = last'.target )
           => /\ last'.status = "KiaraProcessingException"
              /\ Exists(fs, last'.target)
              /\ <<fs', frecs', brecs'>> = <<fs, frecs, brecs>>
              /\ frecs'[last'.self].is_onboarded
        /\ ( /\ last'.op = "save_bundle"
             /\ brecs[last'.self].is_onboarded )
           => /\ last'.status = "Exception"
              /\ brecs[last'.self].path = last'.target
              /\ <<fs', frecs', brecs'>> = <<fs, frecs, brecs>>
              /\ brecs'[last'.self].is_onboarded ]_vars

\* A hashed bundle was saved and its save is asked for again, after a hashed
\* file record was saved: the call fails, the files are in the store.
C27_Witness ==
    /\ last.op = "save_bundle"
    /\ last.status = "Exception"
    /\ brecs[last.self].is_onboarded
    /\ brecs[last.self].path = <<"store", "src">>
    /\ brecs[last.self].file_bundle_hash # NoHash
    /\ IsFile(fs, <<"store", "src", "b.csv">>)
    /\ \E i \in 1..Len(frecs) :
           /\ frecs[i].is_onboarded
           /\ frecs[i].path = <<"store", "a.txt">>
           /\ Memoized(frecs[i])

----------------------------------------------------------------------------
(* Properties of is_onboarded of bundles (SpecStore). *)

\* C28: whatever was imported, copied and saved, the included files of a
\* bundle that is onboarded are onboarded and lie at the bundle's path joined
\* with their key; a record or bundle that is onboarded stays so.
C28_OnboardedBundleWhole ==
    /\ [](\A b \in 1..Len(brecs) :
             brecs[b].is_onboarded
             => \A i \in 1..Len(brecs[b].included_files) :
                    LET e == brecs[b].included_files[i]
                    IN  /\ frecs[e.fid].is_onboarded
                        /\ frecs[e.fid].path = Join(brecs[b].path, e.key))
    /\ [][ /\ \A i \in 1..Len(frecs) : frecs[i].is_onboarded => frecs'[i].is_onboarded
           /\ \A b \in 1..Len(brecs) : brecs[b].is_onboarded => brecs'[b].is_onboarded ]_vars

\* A bundle that was saved is copied: it stays onboarded with its file in the
\* store, the copy and its file are not onboarded.
C28_Witness ==
    /\ last.op = "copy_bundle"
    /\ last.status = "ok"
    /\ brecs[last.self].is_onboarded
    /\ brecs[last.self].path = <<"store", "src">>
    /\ frecs[FileOf(brecs[last.self], <<"b.csv">>)].path = <<"store", "src", "b.csv">>
    /\ frecs[FileOf(brecs[last.self], <<"b.csv">>)].is_onboarded
    /\ ~brecs[last.res].is_onboarded
    /\ ~frecs[FileOf(brecs[last.res], <<"b.csv">>)].is_onboarded

----------------------------------------------------------------------------
(* Properties of orig_path in copy_bundle (SpecBundle). *)

\* C29: the bundle copy_bundle returns has the orig_path of the bundle copied
\* if incl_orig_path is true and none otherwise; each of its files has no
\* orig_path, whatever the flag, and the orig_filename and import_time of the
\* file it was copied from; the import_time of the bundle is taken at the
\* time of the copy.
C29_FlagAtBundleLevel ==
    [][ (last'.op = "copy_bundle" /\ last'.status = "ok")
        => LET self == brecs[last'.self]
               fb == brecs'[last'.res]
           IN  /\ fb.orig_path = IF last'.incl THEN self.orig_path ELSE NoPath
               /\ Keys(fb) = Keys(self)
               /\ \A k \in Keys(fb) :
                      LET item == frecs[FileOf(self, k)]
                          new_fm == frecs'[FileOf(fb, k)]
                      IN  /\ new_fm.orig_path = NoPath
                          /\ new_fm.orig_filename = item.orig_filename
                          /\ new_fm.import_time = item.import_time
               /\ fb.import_time >= clock ]_vars

\* A bundle that was imported with its orig_path is copied with the flag set:
\* the copy has the orig_path, its files have none, the files copied have one.
C29_Witness ==
    /\ last.op = "copy_bundle"
    /\ last.status = "ok"
    /\ last.incl
    /\ brecs[last.res].orig_path = <<"src">>
    /\ Len(brecs[last.res].included_files) > 1
    /\ \A k \in Keys(brecs[last.res]) :
           /\ frecs[FileOf(brecs[last.self], k)].orig_path # NoPath
           /\ frecs[FileOf(brecs[last.res], k)].orig_path = NoPath

----------------------------------------------------------------------------
(* file_bundle_hash of folders whose file names hold "_" and hex digits. *)

\* Three folders: two files; one file whose name is the first file's name,
\* "_", the first file's digest, "_" and the second file's name, with the
\* second file's content; the two files with their contents swapped.
EncodeFs ==
    (<<"d1">> :> DirNode)
    @@ (<<"d1", "a">> :> FileNode(<<1>>))
    @@ (<<"d1", "b">> :> FileNode(<<2>>))
    @@ (<<"d2">> :> DirNode)
    @@ (<<"d2", "a_a0_b">> :> FileNode(<<2>>))
    @@ (<<"d3">> :> DirNode)
    @@ (<<"d3", "a">> :> FileNode(<<2>>))
    @@ (<<"d3", "b">> :> FileNode(<<1>>))

InitEncode ==
    /\ fs = EncodeFs
    /\ frecs = <<>>
    /\ brecs = <<>>
    /\ clock = 1
    /\ last = Call("init", "ok", 0, 0, NoPath, NoPath, FALSE, NoHash)
    /\ callers = [c \in Callers |-> NoCaller]

NextEncode ==
    \/ \E s \in {<<"d1">>, <<"d2">>, <<"d3">>}, incl \in BOOLEAN :
           Len(brecs) < MaxBundles /\ ImportCall(s, NoPath, NoConfig, incl)
    \/ \E b \in 1..Len(brecs) : DoBundleHash(b)

SpecEncode == InitEncode /\ [][NextEncode]_vars

\* C30: two hashed bundles that differ in their (relative path, file hash)
\* pairs were hashed from different strings, so have different
\* file_bundle_hash values, also where the relative paths hold "_" and hex
\* digits; the file hashes all have one length.
C30_EncodingInjective ==
    \A b1, b2 \in 1..Len(brecs) :
        ( /\ BundleHashed(brecs[b1])
          /\ BundleHashed(brecs[b2])
          /\ HashPairs(brecs[b1]) # HashPairs(brecs[b2]) )
        => brecs[b1].file_bundle_hash # brecs[b2].file_bundle_hash

====
